---- MODULE Spec2Model ----
(***************************************************************************)
(* A model of forms.Validation (src/form-validation.js): the validator of  *)
(* an HTML form that shows and hides error messages by the rules encoded   *)
(* in their class names.                                                   *)
(*                                                                         *)
(* A JavaScript string is modelled as the sequence of its UTF-16 code      *)
(* units.  A code unit is written as a one-character TLA+ string; the few  *)
(* code units outside printable ASCII are written by name ("u00e9").       *)
(***************************************************************************)
EXTENDS Integers, Sequences, FiniteSets, TLC

-----------------------------------------------------------------------------
(* Code units *)

\* The printable ASCII code units in code order: Printable[i] has code 31 + i
\* (the grave accent, code 96, is written "u0060").
Printable ==
  <<
    " ", "!", "\"", "#", "$", "%", "&", "'", "(", ")", "*", "+", ",", "-",
    ".", "/", "0", "1", "2", "3", "4", "5", "6", "7", "8", "9", ":", ";",
    "<", "=", ">", "?", "@", "A", "B", "C", "D", "E", "F", "G", "H", "I",
    "J", "K", "L", "M", "N", "O", "P", "Q", "R", "S", "T", "U", "V", "W",
    "X", "Y", "Z", "[", "\\", "]", "^", "_", "u0060", "a", "b", "c", "d", "e",
    "f", "g", "h", "i", "j", "k", "l", "m", "n", "o", "p", "q", "r", "s",
    "t", "u", "v", "w", "x", "y", "z", "{", "|", "}", "~"
  >>

\* Code units outside printable ASCII: TAB, LF, U+00C0, U+00D7, U+00E9, U+00FF
\* and U+2028 LINE SEPARATOR.
Named == {"\t", "\n", "u00c0", "u00d7", "u00e9", "u00ff", "u2028"}

Chars == {Printable[i] : i \in 1..Len(Printable)} \cup Named

CharCode ==
  [c \in Chars |->
     CASE c = "\t" -> 9
       [] c = "\n" -> 10
       [] c = "u00c0" -> 192
       [] c = "u00d7" -> 215
       [] c = "u00e9" -> 233
       [] c = "u00ff" -> 255
       [] c = "u2028" -> 8232
       [] OTHER -> 31 + (CHOOSE i \in 1..Len(Printable) : Printable[i] = c)]

\* The character class ranges of the patterns: a-z, A-Z, 0-9, and \u00c0-\u00ff
\* as far as Named has code units of it.
Lower ==
  {"a", "b", "c", "d", "e", "f", "g", "h", "i", "j", "k", "l", "m",
   "n", "o", "p", "q", "r", "s", "t", "u", "v", "w", "x", "y", "z"}

Upper ==
  {"A", "B", "C", "D", "E", "F", "G", "H", "I", "J", "K", "L", "M",
   "N", "O", "P", "Q", "R", "S", "T", "U", "V", "W", "X", "Y", "Z"}

Digits == {"0", "1", "2", "3", "4", "5", "6", "7", "8", "9"}

Latin1Letters == {"u00c0", "u00d7", "u00e9", "u00ff"}

\* The code units that "." of a JavaScript regular expression does not match
\* (LF and U+2028 of LF, CR, U+2028, U+2029).
LineTerminators == {"\n", "u2028"}

-----------------------------------------------------------------------------
(* String.prototype operations, with JavaScript's 0-based indices *)

\* The element of a one-element set.  Only({e(x) : x \in {v}}) is e(v), with v
\* evaluated once however often e uses it.
Only(S) == CHOOSE x \in S : TRUE

Min2(a, b) == IF a <= b THEN a ELSE b

Max2(a, b) == IF a >= b THEN a ELSE b

\* Clamp an index into 0..n, as substring does with its arguments.
Clamp(x, n) == IF x < 0 THEN 0 ELSE IF x > n THEN n ELSE x

\* s.substring(a, b): both ends clamped to 0..length and swapped if a > b.
substring(s, a, b) == SubSeq(s, Min2(Clamp(a, Len(s)), Clamp(b, Len(s))) + 1, Max2(Clamp(a, Len(s)), Clamp(b, Len(s))))

\* s.substring(a)
substringFrom(s, a) == substring(s, a, Len(s))

\* s.indexOf(t): the least index where t occurs in s, or -1.
indexOf(s, t) ==
  LET at == {i \in 0..(Len(s) - Len(t)) : SubSeq(s, i + 1, i + Len(t)) = t}
  IN  IF at = {} THEN -1 ELSE CHOOSE i \in at : \A j \in at : i <= j

\* s.lastIndexOf(t): the greatest index where t occurs in s, or -1.
lastIndexOf(s, t) ==
  LET at == {i \in 0..(Len(s) - Len(t)) : SubSeq(s, i + 1, i + Len(t)) = t}
  IN  IF at = {} THEN -1 ELSE CHOOSE i \in at : \A j \in at : i >= j

\* s.split(c) for a one-character separator c: the pieces between the
\* occurrences of c, empty pieces included ("a  b".split(" ") has 3 pieces).
RECURSIVE split(_, _)
split(s0, c) ==
  Only({Only({IF i = -1 THEN <<s>>
              ELSE <<substring(s, 0, i)>> \o split(substringFrom(s, i + 1), c)
              : i \in {indexOf(s, <<c>>)}})
        : s \in {s0}})

\* s.toLowerCase() on the ASCII letters.
toLowerCase(s) ==
  [i \in 1..Len(s) |->
     IF s[i] \in Upper
       THEN Printable[(CharCode[s[i]] + 32) - 31]
       ELSE s[i]]

\* a < b for two strings: JavaScript compares them code unit by code unit.
stringLess(a, b) ==
  LET n == Min2(Len(a), Len(b))
      diff == {i \in 1..n : a[i] # b[i]}
      k == CHOOSE i \in diff : \A j \in diff : i <= j
  IN  IF diff = {} THEN Len(a) < Len(b) ELSE CharCode[a[k]] < CharCode[b[k]]

\* Number(s) for a string s: a decimal numeral gives its value; every other
\* string that a class token segment can hold here gives NaN.
RECURSIVE decimal(_)
decimal(s) ==
  IF s = <<>> THEN 0
  ELSE 10 * decimal(SubSeq(s, 1, Len(s) - 1)) + (CharCode[s[Len(s)]] - CharCode["0"])

ToNumber(s) ==
  IF s # <<>> /\ \A i \in 1..Len(s) : s[i] \in Digits
    THEN [nan |-> FALSE, n |-> decimal(s)]
    ELSE [nan |-> TRUE, n |-> 0]

-----------------------------------------------------------------------------
(* RegExp.prototype.test on the patterns the validator builds.  A pattern is *)
(* a tree; Match(r, s, I) is the set of positions where a match of r in s    *)
(* that starts at a position of I can end (positions are 0..Len(s)).         *)

chr(c) == [t |-> "chr", c |-> c]

set(cs) == [t |-> "set", cs |-> cs]

dot == [t |-> "dot"]

bol == [t |-> "bol"]

eol == [t |-> "eol"]

cat(rs) == [t |-> "cat", rs |-> rs]

alt(rs) == [t |-> "alt", rs |-> rs]

\* r{lo,hi}; hi = -1 stands for no upper limit (r* is rep(r, 0, -1)).
rep(r, lo, hi) == [t |-> "rep", r |-> r, lo |-> lo, hi |-> hi]

\* The pattern that matches the string w literally.
lit(w) == cat([i \in 1..Len(w) |-> chr(w[i])])

RECURSIVE Match(_, _, _)
RECURSIVE MatchCat(_, _, _, _)
RECURSIVE Exactly(_, _, _, _)
RECURSIVE UpTo(_, _, _, _)

Match(r, s, I0) ==
  Only({CASE r.t = "chr" -> {i + 1 : i \in {j \in I : j < Len(s) /\ s[j + 1] = r.c}}
          [] r.t = "set" -> {i + 1 : i \in {j \in I : j < Len(s) /\ s[j + 1] \in r.cs}}
          [] r.t = "dot" -> {i + 1 : i \in {j \in I : j < Len(s) /\ s[j + 1] \notin LineTerminators}}
          [] r.t = "bol" -> {i \in I : i = 0}
          [] r.t = "eol" -> {i \in I : i = Len(s)}
          [] r.t = "cat" -> MatchCat(r.rs, 1, s, I)
          [] r.t = "alt" -> UNION {Match(r.rs[k], s, I) : k \in 1..Len(r.rs)}
          [] r.t = "rep" -> UpTo(r.r, IF r.hi = -1 THEN Len(s) + 1 ELSE r.hi - r.lo, s,
                                 Exactly(r.r, r.lo, s, I))
        : I \in {I0}})

MatchCat(rs, k, s, I) ==
  IF k > Len(rs) THEN I ELSE MatchCat(rs, k + 1, s, Match(rs[k], s, I))

\* The ends of exactly n matches of r in a row (n is halved at each step, to
\* keep the evaluation shallow).
Exactly(r, n, s, I) ==
  IF n = 0 THEN I
  ELSE IF n = 1 THEN Match(r, s, I)
  ELSE Exactly(r, n - (n \div 2), s, Exactly(r, n \div 2, s, I))

\* The ends of 0 to n matches of r in a row.  More than Len(s) + 1 matches in
\* a row reach no new position, which is how an unlimited repetition is done;
\* and once some matches reach no new position, no more of them do.
UpTo(r, n, s, I0) ==
  Only({IF n = 0 \/ I = {} THEN I
        ELSE IF n = 1 THEN I \cup Match(r, s, I)
        ELSE Only({IF J = I THEN I ELSE UpTo(r, n - (n \div 2), s, J)
                   : J \in {UpTo(r, n \div 2, s, I)}})
        : I \in {I0}})

\* r.test(s) for a pattern without the g flag: a match starting anywhere.
test(r, s) == Match(r, s, 0..Len(s)) # {}

-----------------------------------------------------------------------------
(* The configuration: the prototype's defaults *)

\* anchor = ''
anchor == <<>>

\* errorTag = null (written "null"; a tag name otherwise).
errorTag == "null"

\* errorClass = 'error'
errorClass == <<"e", "r", "r", "o", "r">>

\* errorDisplay = 'block'
errorDisplay == "block"

\* jump = false
jump == FALSE

\* multiClass = 'm'
multiClass == <<"m">>

\* prefix = 'v-'
prefix == <<"v", "-">>

\* suffix = '-err'
suffix == <<"-", "e", "r", "r">>

\* The top-level domains, the alternatives of topLevelDomains_ in order.
topLevelDomains_ ==
  <<
    <<"a", "c">>, <<"a", "d">>, <<"a", "e">>, <<"a", "e", "r", "o">>,
    <<"a", "f">>, <<"a", "g">>, <<"a", "i">>, <<"a", "l">>, <<"a", "m">>,
    <<"a", "n">>, <<"a", "o">>, <<"a", "q">>, <<"a", "r">>,
    <<"a", "r", "p", "a">>, <<"a", "s">>, <<"a", "s", "i", "a">>,
    <<"a", "t">>, <<"a", "u">>, <<"a", "w">>, <<"a", "x">>, <<"a", "z">>,
    <<"b", "a">>, <<"b", "b">>, <<"b", "d">>, <<"b", "e">>, <<"b", "f">>,
    <<"b", "g">>, <<"b", "h">>, <<"b", "i">>, <<"b", "i", "z">>,
    <<"b", "j">>, <<"b", "m">>, <<"b", "n">>, <<"b", "o">>, <<"b", "r">>,
    <<"b", "s">>, <<"b", "t">>, <<"b", "v">>, <<"b", "w">>, <<"b", "y">>,
    <<"b", "z">>, <<"c", "a">>, <<"c", "a", "t">>, <<"c", "c">>,
    <<"c", "d">>, <<"c", "f">>, <<"c", "g">>, <<"c", "h">>, <<"c", "i">>,
    <<"c", "k">>, <<"c", "l">>, <<"c", "m">>, <<"c", "n">>, <<"c", "o">>,
    <<"c", "o", "m">>, <<"c", "o", "o", "p">>, <<"c", "r">>, <<"c", "u">>,
    <<"c", "v">>, <<"c", "x">>, <<"c", "y">>, <<"c", "z">>, <<"d", "e">>,
    <<"d", "j">>, <<"d", "k">>, <<"d", "m">>, <<"d", "o">>, <<"d", "z">>,
    <<"e", "c">>, <<"e", "d", "u">>, <<"e", "e">>, <<"e", "g">>,
    <<"e", "r">>, <<"e", "s">>, <<"e", "t">>, <<"e", "u">>, <<"f", "i">>,
    <<"f", "j">>, <<"f", "k">>, <<"f", "m">>, <<"f", "o">>, <<"f", "r">>,
    <<"g", "a">>, <<"g", "b">>, <<"g", "d">>, <<"g", "e">>, <<"g", "f">>,
    <<"g", "g">>, <<"g", "h">>, <<"g", "i">>, <<"g", "l">>, <<"g", "m">>,
    <<"g", "n">>, <<"g", "o", "v">>, <<"g", "p">>, <<"g", "q">>,
    <<"g", "r">>, <<"g", "s">>, <<"g", "t">>, <<"g", "u">>, <<"g", "w">>,
    <<"g", "y">>, <<"h", "k">>, <<"h", "m">>, <<"h", "n">>, <<"h", "r">>,
    <<"h", "t">>, <<"h", "u">>, <<"i", "d">>, <<"i", "e">>, <<"i", "l">>,
    <<"i", "m">>, <<"i", "n">>, <<"i", "n", "f", "o">>, <<"i", "n", "t">>,
    <<"i", "o">>, <<"i", "q">>, <<"i", "r">>, <<"i", "s">>, <<"i", "t">>,
    <<"j", "e">>, <<"j", "m">>, <<"j", "o">>, <<"j", "o", "b", "s">>,
    <<"j", "p">>, <<"k", "e">>, <<"k", "g">>, <<"k", "h">>, <<"k", "i">>,
    <<"k", "m">>, <<"k", "n">>, <<"k", "p">>, <<"k", "r">>, <<"k", "w">>,
    <<"k", "y">>, <<"k", "z">>, <<"l", "a">>, <<"l", "b">>, <<"l", "c">>,
    <<"l", "i">>, <<"l", "k">>, <<"l", "r">>, <<"l", "s">>, <<"l", "t">>,
    <<"l", "u">>, <<"l", "v">>, <<"l", "y">>, <<"m", "a">>, <<"m", "c">>,
    <<"m", "d">>, <<"m", "e">>, <<"m", "g">>, <<"m", "h">>,
    <<"m", "i", "l">>, <<"m", "k">>, <<"m", "l">>, <<"m", "m">>,
    <<"m", "n">>, <<"m", "o">>, <<"m", "o", "b", "i">>, <<"m", "p">>,
    <<"m", "q">>, <<"m", "r">>, <<"m", "s">>, <<"m", "t">>, <<"m", "u">>,
    <<"m", "u", "s", "e", "u", "m">>, <<"m", "v">>, <<"m", "w">>,
    <<"m", "x">>, <<"m", "y">>, <<"m", "z">>, <<"n", "a">>,
    <<"n", "a", "m", "e">>, <<"n", "c">>, <<"n", "e">>, <<"n", "e", "t">>,
    <<"n", "f">>, <<"n", "g">>, <<"n", "i">>, <<"n", "l">>, <<"n", "o">>,
    <<"n", "p">>, <<"n", "r">>, <<"n", "u">>, <<"n", "z">>, <<"o", "m">>,
    <<"o", "r", "g">>, <<"p", "a">>, <<"p", "e">>, <<"p", "f">>,
    <<"p", "g">>, <<"p", "h">>, <<"p", "k">>, <<"p", "l">>, <<"p", "m">>,
    <<"p", "n">>, <<"p", "r">>, <<"p", "r", "o">>, <<"p", "s">>,
    <<"p", "t">>, <<"p", "w">>, <<"p", "y">>, <<"q", "a">>, <<"r", "e">>,
    <<"r", "o">>, <<"r", "s">>, <<"r", "u">>, <<"r", "w">>, <<"s", "a">>,
    <<"s", "b">>, <<"s", "c">>, <<"s", "d">>, <<"s", "e">>, <<"s", "g">>,
    <<"s", "h">>, <<"s", "i">>, <<"s", "j">>, <<"s", "k">>, <<"s", "l">>,
    <<"s", "m">>, <<"s", "n">>, <<"s", "o">>, <<"s", "r">>, <<"s", "t">>,
    <<"s", "u">>, <<"s", "v">>, <<"s", "y">>, <<"s", "z">>, <<"t", "c">>,
    <<"t", "d">>, <<"t", "e", "l">>, <<"t", "f">>, <<"t", "g">>,
    <<"t", "h">>, <<"t", "j">>, <<"t", "k">>, <<"t", "l">>, <<"t", "m">>,
    <<"t", "n">>, <<"t", "o">>, <<"t", "p">>, <<"t", "r">>,
    <<"t", "r", "a", "v", "e", "l">>, <<"t", "t">>, <<"t", "v">>,
    <<"t", "w">>, <<"t", "z">>, <<"u", "a">>, <<"u", "g">>, <<"u", "k">>,
    <<"u", "s">>, <<"u", "y">>, <<"u", "z">>, <<"v", "a">>, <<"v", "c">>,
    <<"v", "e">>, <<"v", "g">>, <<"v", "i">>, <<"v", "n">>, <<"v", "u">>,
    <<"w", "f">>, <<"w", "s">>, <<"x", "n">>, <<"y", "e">>, <<"y", "t">>,
    <<"y", "u">>, <<"z", "a">>, <<"z", "m">>, <<"z", "w">>
  >>

AlphaClass == Lower \cup Upper \cup Latin1Letters

AlnumClass == Lower \cup Upper \cup Digits

\* The patterns the constructor stores in validationExp.  The source of the
\* domain pattern is built from string literals in which "\." is the escape of
\* a plain ".", so both of its dots match any code unit but a line terminator.

\* 'alpha': ^[a-zA-Z\u00c0-\u00ff]+$
alphaExp == cat(<<bol, rep(set(AlphaClass), 1, -1), eol>>)

\* 'alphanum': ^[a-zA-Z0-9\u00c0-\u00ff]+$
alphanumExp == cat(<<bol, rep(set(AlnumClass \cup Latin1Letters), 1, -1), eol>>)

\* 'domain':
\* ^(?:[a-zA-Z0-9_-]*.)*(?:[a-zA-Z0-9](?:[a-zA-Z0-9-]*[a-zA-Z0-9])?)+.(?:ac|...|zw)$
domainExp ==
  cat(<<bol,
        rep(cat(<<rep(set(AlnumClass \cup {"_", "-"}), 0, -1), dot>>), 0, -1),
        rep(cat(<<set(AlnumClass),
                  rep(cat(<<rep(set(AlnumClass \cup {"-"}), 0, -1), set(AlnumClass)>>), 0, 1)>>),
            1, -1),
        dot,
        alt([i \in 1..Len(topLevelDomains_) |-> lit(topLevelDomains_[i])]),
        eol>>)

\* The longest local part the 'email-local' pattern takes.
LocalMax == 255

\* 'email-local': ^.{1,255}$
emailLocalExp == cat(<<bol, rep(dot, 1, LocalMax), eol>>)

\* 'num': ^\d+$
numExp == cat(<<bol, rep(set(Digits), 1, -1), eol>>)

\* 'phone': ^[0-9.()+ -]{10,25}$
phoneExp == cat(<<bol, rep(set(Digits \cup {".", "(", ")", "+", " ", "-"}), 10, 25), eol>>)

\* 'url': ^https?:\/\/.+$
urlExp ==
  cat(<<bol, lit(<<"h", "t", "t", "p">>), rep(chr("s"), 0, 1), lit(<<":", "/", "/">>),
        rep(dot, 1, -1), eol>>)

validationExp ==
  [k \in {<<"a", "l", "p", "h", "a">>,
          <<"a", "l", "p", "h", "a", "n", "u", "m">>,
          <<"d", "o", "m", "a", "i", "n">>,
          <<"e", "m", "a", "i", "l", "-", "l", "o", "c", "a", "l">>,
          <<"n", "u", "m">>,
          <<"p", "h", "o", "n", "e">>,
          <<"u", "r", "l">>} |->
     CASE k = <<"a", "l", "p", "h", "a">> -> alphaExp
       [] k = <<"a", "l", "p", "h", "a", "n", "u", "m">> -> alphanumExp
       [] k = <<"d", "o", "m", "a", "i", "n">> -> domainExp
       [] k = <<"e", "m", "a", "i", "l", "-", "l", "o", "c", "a", "l">> -> emailLocalExp
       [] k = <<"n", "u", "m">> -> numExp
       [] k = <<"p", "h", "o", "n", "e">> -> phoneExp
       [] k = <<"u", "r", "l">> -> urlExp]

\* The extensions the constructor stores in fileTypes, by group.
fileTypes ==
  [g \in {<<"a", "u", "d", "i", "o">>, <<"i", "m", "a", "g", "e">>, <<"p", "d", "f">>,
          <<"t", "e", "x", "t">>, <<"h", "t", "m", "l">>, <<"v", "i", "d", "e", "o">>} |->
     CASE g = <<"a", "u", "d", "i", "o">> ->
            <<<<"m", "p", "3">>, <<"m", "p", "4">>, <<"f", "l", "a", "c">>,
              <<"o", "g", "g">>, <<"w", "m", "a">>, <<"w", "a", "v">>>>
       [] g = <<"i", "m", "a", "g", "e">> ->
            <<<<"b", "m", "p">>, <<"g", "i", "f">>, <<"j", "p", "g">>,
              <<"j", "p", "e", "g">>, <<"p", "n", "g">>, <<"t", "i", "f">>,
              <<"r", "a", "w">>>>
       [] g = <<"p", "d", "f">> -> <<<<"p", "d", "f">>>>
       [] g = <<"t", "e", "x", "t">> -> <<<<"t", "x", "t">>>>
       [] g = <<"h", "t", "m", "l">> -> <<<<"h", "t", "m", "l">>, <<"h", "t", "m">>>>
       [] g = <<"v", "i", "d", "e", "o">> ->
            <<<<"m", "o", "v">>, <<"m", "p", "e", "g">>, <<"m", "p", "g">>,
              <<"a", "v", "i">>, <<"o", "g", "m">>, <<"w", "m", "v">>>>]

-----------------------------------------------------------------------------
(* The form.  els is form.elements in document order: a control is a record  *)
(* [name, type, value, disabled, readonly, checked] (a select also has       *)
(* options and selectedIndex).  A boolean result that may instead end in an  *)
(* exception is one of "true", "false", "TypeError".                         *)

B(b) == IF b THEN "true" ELSE "false"

\* A JavaScript value that is a string, null or undefined.
Str(s) == [k |-> "string", s |-> s]

Null == [k |-> "null"]

Undefined == [k |-> "undefined"]

\* args[i] of an array (0-based): undefined past its end.
ArgAt(args, i) == IF i < Len(args) THEN Str(args[i + 1]) ELSE Undefined

\* The property key a value is converted to in obj[value].
ToKey(v) ==
  CASE v.k = "string" -> v.s
    [] v.k = "null" -> <<"n", "u", "l", "l">>
    [] v.k = "undefined" -> <<"u", "n", "d", "e", "f", "i", "n", "e", "d">>

\* Number(v)
NumberOf(v) ==
  CASE v.k = "string" -> IF v.s = <<>> THEN [nan |-> FALSE, n |-> 0] ELSE ToNumber(v.s)
    [] v.k = "null" -> [nan |-> FALSE, n |-> 0]
    [] v.k = "undefined" -> [nan |-> TRUE, n |-> 0]

\* !v
Falsy(v) == v.k # "string" \/ v.s = <<>>

\* a <= b for two such values: two strings are compared as strings, anything
\* else as numbers (and NaN compares false).
LessOrEqual(a, b) ==
  IF a.k = "string" /\ b.k = "string"
    THEN ~stringLess(b.s, a.s)
    ELSE ~NumberOf(a).nan /\ ~NumberOf(b).nan /\ NumberOf(a).n <= NumberOf(b).n

\* form.elements[name]: the indices in els of the controls of that name.  No
\* index stands for undefined, one for the control, several for the
\* collection of the same-named controls.
Named_(els, name) == SelectSeq([i \in 1..Len(els) |-> i], LAMBDA i : els[i].name = name)

\* formGet_: the control(s) named fieldName, else those named fieldName + '[]',
\* else null (the empty sequence).
formGet_(els, fieldName) ==
  IF Named_(els, fieldName) # <<>> THEN Named_(els, fieldName)
  ELSE IF Named_(els, fieldName \o <<"[", "]">>) # <<>> THEN Named_(els, fieldName \o <<"[", "]">>)
  ELSE <<>>

\* field.value of a control, or of a collection (the value of its first
\* checked radio button, else '').
ValueOf(els, field) ==
  IF Len(field) = 1 THEN els[field[1]].value
  ELSE LET on == {i \in 1..Len(field) : els[field[i]].type = "radio" /\ els[field[i]].checked}
       IN  IF on = {} THEN <<>> ELSE els[field[CHOOSE i \in on : \A j \in on : i <= j]].value

\* isDisabled_: field.disabled, which a collection does not have.
isDisabled_(els, field) == Len(field) = 1 /\ els[field[1]].disabled

\* isReadOnly_: field.readonly, which a collection does not have.
isReadOnly_(els, field) == Len(field) = 1 /\ els[field[1]].readonly

\* hasValue_: !!value.length
hasValue_(value) == Len(value) # 0

\* isEqual_: firstValue === secondValue
isEqual_(firstValue, secondValue) == firstValue = secondValue

\* getFieldName_ that cuts at the last hyphen whatever the class names are.
getFieldNameCut_(errorId, className) ==
  LET field == substring(errorId, 0, Len(errorId) - Len(suffix))
  IN  substring(field, 0, lastIndexOf(field, <<"-">>))

\* getFieldName_: the id without its last suffix.length code units, cut at its
\* last hyphen when a class of className is prefix + multiClass.  className is
\* '' when the caller passes none.
getFieldName_(errorId, className) ==
  LET field == substring(errorId, 0, Len(errorId) - Len(suffix))
      classArr == split(className, " ")
  IN  IF \E i \in 1..Len(classArr) : classArr[i] = prefix \o multiClass
        THEN substring(field, 0, lastIndexOf(field, <<"-">>))
        ELSE field

\* splitClassName_: the method and the arguments of one class name.
splitClassName_(className) ==
  LET stripped == IF indexOf(className, prefix) >= 0
                    THEN substringFrom(className, Len(prefix))
                    ELSE className
      cleanArgs == SelectSeq(split(stripped, "-"), LAMBDA a : Len(a) # 0)
  IN  IF Len(cleanArgs) = 0 THEN [method |-> <<>>, args |-> <<>>]
      ELSE [method |-> cleanArgs[1], args |-> Tail(cleanArgs)]

\* isValidRegExp_: validationExp[expression].test(value); a key the table does
\* not have gives undefined, and the call of its test ends in a TypeError.
isValidRegExp_(value, expression) ==
  IF expression \notin DOMAIN validationExp THEN "TypeError"
  ELSE B(test(validationExp[expression], value))

\* isValidEmail_ with the value split at its first @.
isValidEmailAtFirst_(value) ==
  IF indexOf(value, <<"@">>) = -1 THEN "false"
  ELSE LET sep == indexOf(value, <<"@">>)
           dom == isValidRegExp_(substringFrom(value, sep + 1), <<"d", "o", "m", "a", "i", "n">>)
       IN  IF dom # "true" THEN dom
           ELSE isValidRegExp_(substring(value, 0, sep),
                               <<"e", "m", "a", "i", "l", "-", "l", "o", "c", "a", "l">>)

\* isValidEmail_: the part after the last @ against 'domain', then the part
\* before it against 'email-local'.
isValidEmail_(value) ==
  IF indexOf(value, <<"@">>) = -1 THEN "false"
  ELSE LET sep == lastIndexOf(value, <<"@">>)
           dom == isValidRegExp_(substringFrom(value, sep + 1), <<"d", "o", "m", "a", "i", "n">>)
       IN  IF dom # "true" THEN dom
           ELSE isValidRegExp_(substring(value, 0, sep),
                               <<"e", "m", "a", "i", "l", "-", "l", "o", "c", "a", "l">>)

\* isValidLength_: min and max are the strings of the class name (or null,
\* undefined); value.length is a number.
isValidLength_(value, min, max) ==
  LET geMin == ~NumberOf(min).nan /\ Len(value) >= NumberOf(min).n
      leMax == ~NumberOf(max).nan /\ Len(value) <= NumberOf(max).n
  IN  IF Falsy(max) THEN geMin
      ELSE LessOrEqual(min, max) /\ geMin /\ leMax

\* getFileExtension_: what follows the last '.'.
getFileExtension_(value) == substringFrom(value, lastIndexOf(value, <<".">>) + 1)

\* isValidFileExtension_: a group fileTypes does not have gives undefined, and
\* reading its length ends in a TypeError.
isValidFileExtension_(value, filetype) ==
  IF ToKey(filetype) \notin DOMAIN fileTypes THEN "TypeError"
  ELSE LET exts == fileTypes[ToKey(filetype)]
       IN  B(\E i \in 1..Len(exts) : exts[i] = toLowerCase(getFileExtension_(value)))

\* The switch of validateHandler_ on the method and the arguments of a class
\* name: the result, and the value as it leaves it.
RuleWith(els, method, args, value) ==
  LET other == formGet_(els, ToKey(ArgAt(args, 0)))
      cut == IF value # <<>> /\ value[Len(value)] = "\""
               THEN substring(value, 0, Len(value) - 2)
               ELSE value
  IN  CASE method = <<"e", "m", "a", "i", "l">> ->
             [valid |-> isValidEmail_(value), value |-> value]
        [] method \in {<<"f", "i", "l", "e">>, <<"u", "p", "l", "o", "a", "d">>} ->
             [valid |-> isValidFileExtension_(cut, ArgAt(args, 0)), value |-> cut]
        [] method = <<"l", "e", "n">> ->
             [valid |-> B(isValidLength_(value, ArgAt(args, 0),
                                         IF Len(args) = 1 THEN Null ELSE ArgAt(args, 1))),
              value |-> value]
        [] method \in {<<"m", "a", "t", "c", "h">>, <<"e", "q">>, <<"e", "q", "u", "a", "l">>} ->
             [valid |-> IF other = <<>> THEN "TypeError"
                        ELSE B(isEqual_(value, ValueOf(els, other))),
              value |-> value]
        [] method \in {<<"r", "e", "q", "u", "i", "r", "e", "d">>, <<"e", "r", "r", "o", "r">>, errorClass} ->
             [valid |-> B(hasValue_(value)), value |-> value]
        [] method = multiClass ->
             [valid |-> "true", value |-> value]
        [] OTHER ->
             [valid |-> isValidRegExp_(value, method), value |-> value]

\* One turn of the loop of validateHandler_: a class name that begins with the
\* prefix is split and goes through the switch, any other leaves valid true.
RuleOf(els, className, value) ==
  IF substring(className, 0, Len(prefix)) = prefix
    THEN Only({RuleWith(els, parts.method, parts.args, value)
               : parts \in {splitClassName_(className)}})
    ELSE [valid |-> "true", value |-> value]

\* The loop of validateHandler_ from classArr[i] (0-based) on: it ends at the
\* end of the array and at an empty class name, which is falsy.
RECURSIVE HandlerLoop(_, _, _, _)
HandlerLoop(els, classArr, i, value) ==
  IF i >= Len(classArr) \/ classArr[i + 1] = <<>> THEN "true"
  ELSE Only({IF turn.valid # "true" THEN turn.valid
             ELSE HandlerLoop(els, classArr, i + 1, turn.value)
             : turn \in {RuleOf(els, classArr[i + 1], value)}})

\* validateHandler_
validateHandler_(els, className, value) ==
  Only({HandlerLoop(els, classArr, 0, value) : classArr \in {split(className, " ")}})

-----------------------------------------------------------------------------
(* The type-specific checks.  nodes are the elements inside the form in       *)
(* document order, each a record [tag, id, className, display]; display is    *)
(* style.display, '' until a script sets it.                                  *)

\* checkCheckbox_: a collection passes with a checked control that is not
\* disabled; a single control passes when disabled or checked.
checkCheckbox_(els, fieldName) ==
  LET field == formGet_(els, fieldName)
  IN  IF Len(field) > 1
        THEN B(\E i \in 1..Len(field) : ~els[field[i]].disabled /\ els[field[i]].checked)
        ELSE B(isDisabled_(els, field) \/ els[field[1]].checked)

\* checkRadio_: some control of the group is checked; a single radio button
\* has no length, and the loop over it is empty.
checkRadio_(els, fieldName) ==
  LET radioGroup == formGet_(els, fieldName)
  IN  B(Len(radioGroup) > 1 /\ \E i \in 1..Len(radioGroup) : els[radioGroup[i]].checked)

\* checkText_
checkText_(els, fieldName, className) ==
  LET field == formGet_(els, fieldName)
  IN  IF isDisabled_(els, field) \/ isReadOnly_(els, field) THEN "true"
      ELSE validateHandler_(els, className, ValueOf(els, field))

\* checkSelect_: options[selectedIndex] is undefined when nothing is selected
\* (selectedIndex -1), and reading its value ends in a TypeError.
checkSelect_(els, fieldName) ==
  LET field == formGet_(els, fieldName)
      sel == els[field[1]]
  IN  IF isDisabled_(els, field) THEN "true"
      ELSE IF sel.selectedIndex < 0 \/ sel.selectedIndex >= Len(sel.options) THEN "TypeError"
      ELSE B(hasValue_(sel.options[sel.selectedIndex + 1]))

\* checkTextArea_
checkTextArea_(els, fieldName) ==
  LET field == formGet_(els, fieldName)
  IN  B(isDisabled_(els, field) \/ isReadOnly_(els, field) \/ hasValue_(ValueOf(els, field)))

\* checkFileUpload_
checkFileUpload_(els, fieldName, className) ==
  LET field == formGet_(els, fieldName)
  IN  IF isDisabled_(els, field) THEN "true"
      ELSE validateHandler_(els, className, ValueOf(els, field))

\* check_: the type of the control, or of the first control of a collection
\* (which has no type of its own); reading the type of null ends in a
\* TypeError.
check_(els, fieldName, className) ==
  LET field == formGet_(els, fieldName)
      type == els[field[1]].type
  IN  IF field = <<>> THEN "TypeError"
      ELSE CASE type = "checkbox" -> checkCheckbox_(els, fieldName)
             [] type \in {"text", "password"} -> checkText_(els, fieldName, className)
             [] type \in {"select-one", "select-multiple"} -> checkSelect_(els, fieldName)
             [] type = "textarea" -> checkTextArea_(els, fieldName)
             [] type = "file" -> checkFileUpload_(els, fieldName, className)
             [] type = "radio" -> checkRadio_(els, fieldName)
             [] OTHER -> "true"

\* display_ without its show: the element is displayed either way.
displayAlways_(element, show) == [element EXCEPT !.display = errorDisplay]

\* display_
display_(element, show) == [element EXCEPT !.display = IF show THEN errorDisplay ELSE "none"]

\* The class name pattern of getElementsByClass_:
\* '^[a-zA-Z0-9 -]*' + classes.join('|') + '[a-zA-Z0-9 -]*$'.  The | of the join
\* splits the whole pattern: the head belongs to the first alternative only
\* and the tail to the last only.
ClassFill == rep(set(AlnumClass \cup {" ", "-"}), 0, -1)

ClassPattern(classes) ==
  alt([i \in 1..Len(classes) |->
         cat((IF i = 1 THEN <<bol, ClassFill>> ELSE <<>>)
             \o <<lit(classes[i])>>
             \o (IF i = Len(classes) THEN <<ClassFill, eol>> ELSE <<>>))])

\* getElementsByClass_: tagName || '*', and the indices, in document order, of
\* the nodes of that tag whose className the pattern matches.
getElementsByClass_(classes, nodes, tagName) ==
  LET tag == IF tagName = "null" THEN "*" ELSE tagName
  IN  SelectSeq([i \in 1..Len(nodes) |-> i],
                LAMBDA i : /\ tag = "*" \/ nodes[i].tag = tag
                           /\ test(ClassPattern(classes), nodes[i].className))

\* hideAllErrors: the nodes, every error message of them hidden.
hideAllErrors(nodes) ==
  Only({[i \in 1..Len(nodes) |->
           IF \E k \in 1..Len(elements) : elements[k] = i
             THEN display_(nodes[i], FALSE)
             ELSE nodes[i]]
        : elements \in {getElementsByClass_(<<errorClass, prefix>>, nodes, errorTag)}})

\* focus_: field.focus(), and field[0].focus() when that throws: a control is
\* focused itself, a collection (which has no focus method) by its first
\* control, and on null both attempts end in a TypeError.
focus_(field) ==
  IF field = <<>> THEN [thrown |-> TRUE, target |-> 0]
  ELSE [thrown |-> FALSE, target |-> field[1]]

\* That test without its second half: an error message's field is checked
\* also when it is the field that failed last.
CheckedAlso(formElementId, lastFailedField) == formElementId # <<>>

\* The test of isValid that decides whether an error message's field is checked.
Checked(formElementId, lastFailedField) == formElementId # <<>> /\ formElementId # lastFailedField

\* lastFailedField kept from one call to the next, as a property of the
\* validator would be.
lastFailedFieldKept(last) == last.lastFailedField

\* var lastFailedField = '': a call starts with no failed field, whatever the
\* call before it (last) left.
lastFailedField0(last) == <<>>

\* One turn of the loop of isValid, for the error message nodes[n].  st holds
\* the loop's variables, the nodes as displayed so far, and the log of the
\* calls of check_: the node, the field and the result of each.  A check_
\* that throws ends the call.
isValidTurn(els, n, st) ==
  LET errorMsg == st.nodes[n]
  IN  Only({IF ~Checked(formElementId, st.lastFailedField) THEN st
            ELSE Only({IF passed = "TypeError"
                         THEN [st EXCEPT !.thrown = TRUE,
                                         !.log = Append(@, [node |-> n, field |-> formElementId, result |-> passed])]
                       ELSE IF passed = "false"
                         THEN [st EXCEPT !.firstErrorId = IF st.valid THEN errorMsg.id ELSE @,
                                         !.valid = FALSE,
                                         !.lastFailedField = formElementId,
                                         !.nodes[n] = display_(errorMsg, TRUE),
                                         !.log = Append(@, [node |-> n, field |-> formElementId, result |-> passed])]
                       ELSE [st EXCEPT !.nodes[n] = display_(errorMsg, FALSE),
                                       !.log = Append(@, [node |-> n, field |-> formElementId, result |-> passed])]
                       : passed \in {check_(els, formElementId, errorMsg.className)}})
            : formElementId \in {getFieldName_(errorMsg.id, errorMsg.className)}})

\* The loop of isValid from errorMsgs[i] (0-based) on.
RECURSIVE isValidLoop(_, _, _, _)
isValidLoop(els, errorMsgs, i, st0) ==
  Only({IF i >= Len(errorMsgs) \/ st.thrown THEN st
        ELSE isValidLoop(els, errorMsgs, i + 1, isValidTurn(els, errorMsgs[i + 1], st))
        : st \in {st0}})

\* What isValid does after the loop that left st: on a failure the jump, and
\* the focus on the control named by the first error's id without its
\* suffix.  ret is "true" or "false", or "TypeError" when the call ends in
\* that exception; focusName is the name whose control the call tried to
\* focus.
isValidEnd(els, errorMsgs, st, focus, location) ==
  LET focusName == getFieldName_(st.firstErrorId, <<>>)
      focused == focus_(formGet_(els, focusName))
      failed == ~st.thrown /\ ~st.valid
  IN  [nodes |-> st.nodes,
       focus |-> IF failed /\ ~focused.thrown THEN focused.target ELSE focus,
       location |-> IF failed /\ jump
                      THEN (IF Len(anchor) # 0 THEN anchor ELSE <<"#">> \o st.firstErrorId)
                      ELSE location,
       ret |-> IF st.thrown \/ (failed /\ focused.thrown) THEN "TypeError" ELSE B(st.valid),
       errorMsgs |-> errorMsgs,
       log |-> st.log,
       firstErrorId |-> st.firstErrorId,
       lastFailedField |-> st.lastFailedField,
       focusName |-> IF failed THEN focusName ELSE <<>>,
       focusTried |-> failed]

\* isValid: what a call leaves.
isValid(els, nodes, focus, location, last) ==
  Only({Only({Only({isValidEnd(els, errorMsgs, st, focus, location)
                    : st \in {isValidLoop(els, errorMsgs, 0,
                                          [nodes |-> hidden, valid |-> TRUE, firstErrorId |-> <<>>,
                                           lastFailedField |-> lastFailedField0(last),
                                           log |-> <<>>, thrown |-> FALSE])}})
              : errorMsgs \in {getElementsByClass_(<<errorClass, prefix>>, hidden, errorTag)}})
        : hidden \in {hideAllErrors(nodes)}})

-----------------------------------------------------------------------------
(* The forms the model starts from *)

Control(name, type) == [name |-> name, type |-> type, value |-> <<>>, disabled |-> FALSE, readonly |-> FALSE, checked |-> FALSE]

Option(name, options) == [name |-> name, type |-> "select-one", value |-> <<>>, disabled |-> FALSE, readonly |-> FALSE, checked |-> FALSE, options |-> options, selectedIndex |-> 0]

Node(tag, id, className) == [tag |-> tag, id |-> id, className |-> className, display |-> ""]

\* The form of the comment in getFieldName_: three messages for one field.
\*   <ins id="serial-0-err" class="v-error v-m">
\*   <ins id="serial-1-err" class="v-error v-m v-alphanum">
\*   <ins id="serial-2-err" class="v-error v-m v-len-2-4">
\*   <input name="serial" type="text">
SerialForm ==
  [els |-> <<Control(<<"s", "e", "r", "i", "a", "l">>, "text")>>,
   nodes |-> <<Node("ins", <<"s", "e", "r", "i", "a", "l", "-", "0", "-", "e", "r", "r">>, <<"v", "-", "e", "r", "r", "o", "r", " ", "v", "-", "m">>),
               Node("ins", <<"s", "e", "r", "i", "a", "l", "-", "1", "-", "e", "r", "r">>, <<"v", "-", "e", "r", "r", "o", "r", " ", "v", "-", "m", " ", "v", "-", "a", "l", "p", "h", "a", "n", "u", "m">>),
               Node("ins", <<"s", "e", "r", "i", "a", "l", "-", "2", "-", "e", "r", "r">>, <<"v", "-", "e", "r", "r", "o", "r", " ", "v", "-", "m", " ", "v", "-", "l", "e", "n", "-", "2", "-", "4">>)>>]

\* A sign-up form: one message per field, a summary without an id, and a
\* paragraph that is no error message.
\*   <p id="intro" class="hint">
\*   <div class="error summary">
\*   <span id="user-err" class="v-error">       <input name="user" type="text">
\*   <span id="email-err" class="v-error v-email"> <input name="email" type="text">
SignupForm ==
  [els |-> <<Control(<<"u", "s", "e", "r">>, "text"), Control(<<"e", "m", "a", "i", "l">>, "text")>>,
   nodes |-> <<Node("p", <<"i", "n", "t", "r", "o">>, <<"h", "i", "n", "t">>),
               Node("div", <<>>, <<"e", "r", "r", "o", "r", " ", "s", "u", "m", "m", "a", "r", "y">>),
               Node("span", <<"u", "s", "e", "r", "-", "e", "r", "r">>, <<"v", "-", "e", "r", "r", "o", "r">>),
               Node("span", <<"e", "m", "a", "i", "l", "-", "e", "r", "r">>, <<"v", "-", "e", "r", "r", "o", "r", " ", "v", "-", "e", "m", "a", "i", "l">>)>>]

\* Controls in groups: two checkboxes named opt[], two radio buttons named
\* plan, and a select.
\*   <em id="opt-err" class="v-error">      <input name="opt[]" type="checkbox"> (twice)
\*   <em id="plan-err" class="v-error">     <input name="plan" type="radio"> (twice)
\*   <em id="country-err" class="v-error">  <select name="country"> with options '' and 'nz'
GroupForm ==
  [els |-> <<Control(<<"o", "p", "t", "[", "]">>, "checkbox"), Control(<<"o", "p", "t", "[", "]">>, "checkbox"),
             Control(<<"p", "l", "a", "n">>, "radio"), Control(<<"p", "l", "a", "n">>, "radio"),
             Option(<<"c", "o", "u", "n", "t", "r", "y">>, <<<<>>, <<"n", "z">>>>)>>,
   nodes |-> <<Node("em", <<"o", "p", "t", "-", "e", "r", "r">>, <<"v", "-", "e", "r", "r", "o", "r">>),
               Node("em", <<"p", "l", "a", "n", "-", "e", "r", "r">>, <<"v", "-", "e", "r", "r", "o", "r">>),
               Node("em", <<"c", "o", "u", "n", "t", "r", "y", "-", "e", "r", "r">>, <<"v", "-", "e", "r", "r", "o", "r">>)>>]

\* A form with a rule that validationExp does not have, a textarea, a file
\* upload and a disabled field.
\*   <b id="code-err" class="v-required v-caps">    <input name="code" type="text">
\*   <b id="notes-err" class="v-error">             <textarea name="notes">
\*   <b id="avatar-err" class="v-file-image">       <input name="avatar" type="file">
\*   <b id="promo-err" class="v-error">             <input name="promo" type="text" disabled>
UploadForm ==
  [els |-> <<Control(<<"c", "o", "d", "e">>, "text"), Control(<<"n", "o", "t", "e", "s">>, "textarea"),
             Control(<<"a", "v", "a", "t", "a", "r">>, "file"),
             [Control(<<"p", "r", "o", "m", "o">>, "text") EXCEPT !.disabled = TRUE]>>,
   nodes |-> <<Node("b", <<"n", "o", "t", "e", "s", "-", "e", "r", "r">>, <<"v", "-", "e", "r", "r", "o", "r">>),
               Node("b", <<"a", "v", "a", "t", "a", "r", "-", "e", "r", "r">>, <<"v", "-", "f", "i", "l", "e", "-", "i", "m", "a", "g", "e">>),
               Node("b", <<"p", "r", "o", "m", "o", "-", "e", "r", "r">>, <<"v", "-", "e", "r", "r", "o", "r">>),
               Node("b", <<"c", "o", "d", "e", "-", "e", "r", "r">>, <<"v", "-", "r", "e", "q", "u", "i", "r", "e", "d", " ", "v", "-", "c", "a", "p", "s">>)>>]

Forms == {SerialForm, SignupForm, GroupForm, UploadForm}

\* What the user types into a text field: '', 'ab', 'a!', 'abcde',
\* 'x@example.com'.
Typed == {<<>>, <<"a", "b">>, <<"a", "!">>, <<"a", "b", "c", "d", "e">>, <<"x", "@", "e", "x", "a", "m", "p", "l", "e", ".", "c", "o", "m">>}

\* The files the user chooses: none, 'a.png', 'a.txt'.
Files == {<<>>, <<"a", ".", "p", "n", "g">>, <<"a", ".", "t", "x", "t">>}

-----------------------------------------------------------------------------
(* The state *)

VARIABLES els, nodes, focus, location, call, probe, out

vars == <<els, nodes, focus, location, call, probe, out>>

\* No call of the validator since the form last changed.
NoCall == [op |-> "none", ret |-> "none", errorMsgs |-> <<>>, log |-> <<>>, firstErrorId |-> <<>>, lastFailedField |-> <<>>, focusName |-> <<>>, focusTried |-> FALSE, shown |-> {}, streak |-> 0]

\* No class name and value handed to the rules, and nothing come out of them.
NoProbe == [kind |-> "none", className |-> <<>>, value |-> <<>>, parts |-> <<>>, min |-> -1, max |-> -1]

NoOut == [valid |-> "none", split |-> <<>>, field |-> <<>>]

Init ==
  /\ \E f \in Forms : els = f.els /\ nodes = f.nodes
  /\ focus = 0
  /\ location = <<>>
  /\ call = NoCall
  /\ probe = NoProbe
  /\ out = NoOut

\* The submit handler: isValid().  call keeps what the call returned and
\* logged, the nodes that were displayed when it began, and whether the step
\* before it was a call of isValid too (streak 2).
IsValid ==
  \E r \in {isValid(els, nodes, focus, location, call)} :
    /\ nodes' = r.nodes
    /\ focus' = r.focus
    /\ location' = r.location
    /\ call' = [op |-> "isValid", ret |-> r.ret, errorMsgs |-> r.errorMsgs, log |-> r.log,
                firstErrorId |-> r.firstErrorId, lastFailedField |-> r.lastFailedField,
                focusName |-> r.focusName, focusTried |-> r.focusTried,
                shown |-> {n \in 1..Len(nodes) : nodes[n].display = errorDisplay},
                streak |-> IF call.op = "isValid" THEN 2 ELSE 1]
    /\ UNCHANGED <<els, probe, out>>

\* hideAllErrors()
HideAllErrors ==
  /\ \E hidden \in {hideAllErrors(nodes)} : nodes' = hidden
  /\ call' = [NoCall EXCEPT !.op = "hideAllErrors"]
  /\ UNCHANGED <<els, focus, location, probe, out>>

\* The user types into a text field, a password field or a textarea, or
\* chooses a file.
Input ==
  \E i \in 1..Len(els) :
    \E v \in Typed \cup Files :
      /\ els[i].type \in {"text", "password", "textarea", "file"}
      /\ ~els[i].disabled
      /\ (els[i].type = "file") = (v \in Files)  \/ v = <<>>
      /\ v # els[i].value
      /\ els' = [els EXCEPT ![i].value = v]
      /\ call' = NoCall
      /\ UNCHANGED <<nodes, focus, location, probe, out>>

\* The user clicks a checkbox (which toggles it) or a radio button (which
\* checks it and unchecks the others of its group).
Click ==
  \E i \in 1..Len(els) :
    /\ els[i].type \in {"checkbox", "radio"}
    /\ els[i].type = "radio" => ~els[i].checked
    /\ els' = [j \in 1..Len(els) |->
                 IF j = i THEN [els[j] EXCEPT !.checked = ~@]
                 ELSE IF els[i].type = "radio" /\ els[j].type = "radio" /\ els[j].name = els[i].name
                   THEN [els[j] EXCEPT !.checked = FALSE]
                   ELSE els[j]]
    /\ call' = NoCall
    /\ UNCHANGED <<nodes, focus, location, probe, out>>

\* The user selects another option of a select.
Choose ==
  \E i \in 1..Len(els) :
    /\ els[i].type = "select-one"
    /\ \E k \in 0..(Len(els[i].options) - 1) :
         /\ k # els[i].selectedIndex
         /\ els' = [els EXCEPT ![i].selectedIndex = k]
    /\ call' = NoCall
    /\ UNCHANGED <<nodes, focus, location, probe, out>>

\* Another script of the page shows a node (style.display = 'block'): the
\* display the validator finds is not only the one it left.
Show ==
  \E n \in 1..Len(nodes) :
    /\ nodes[n].display # "block"
    /\ nodes' = [nodes EXCEPT ![n].display = "block"]
    /\ call' = NoCall
    /\ UNCHANGED <<els, focus, location, probe, out>>

Next == IsValid \/ HideAllErrors \/ Input \/ Click \/ Choose \/ Show

Spec == Init /\ [][Next]_vars

-----------------------------------------------------------------------------
(* The rules on their own: a class name and a value handed to                *)
(* validateHandler_, and a class name to splitClassName_.  probe is what is  *)
(* handed over, with the pieces it was put together from, and out what comes *)
(* back.                                                                      *)

\* The largest min and max of a len class name.
MaxArg == 12

\* The longest value a len class name is tried on.
MaxLen == 12

\* The most class names of a class string.
MaxTokens == 2

Repeat(c, n) == [i \in 1..n |-> c]

DigitChar(d) == <<"0", "1", "2", "3", "4", "5", "6", "7", "8", "9">>[d + 1]

\* The decimal digits of a number, as a class name holds them.
RECURSIVE Decimal(_)
Decimal(n) == IF n < 10 THEN <<DigitChar(n)>> ELSE Decimal(n \div 10) \o <<DigitChar(n % 10)>>

RECURSIVE Join(_, _)
Join(tokens, sep) ==
  IF Len(tokens) = 0 THEN <<>>
  ELSE IF Len(tokens) = 1 THEN tokens[1]
  ELSE tokens[1] \o sep \o Join(Tail(tokens), sep)

\* prefix + 'len-' + min and prefix + 'len-' + min + '-' + max (max -1: none)
\* on values of every length up to MaxLen.
LenProbes ==
  {[kind |-> "len",
    className |-> prefix \o <<"l", "e", "n", "-">> \o Decimal(a) \o (IF b = -1 THEN <<>> ELSE <<"-">> \o Decimal(b)),
    value |-> Repeat("x", n), parts |-> <<>>, min |-> a, max |-> b]
   : a \in 0..MaxArg, b \in -1..MaxArg, n \in 0..MaxLen}

\* The local parts: '', 'user', 'a@b', '@a', 'a' + U+2028, 'a\nb', and one of
\* LocalMax and one of LocalMax + 1 code units.
Locals ==
  {<<>>, <<"u", "s", "e", "r">>, <<"a", "@", "b">>, <<"@", "a">>, <<"a", "u2028">>, <<"a", "\n", "b">>,
   Repeat("a", LocalMax), Repeat("a", LocalMax + 1)}

\* The domains: '', 'example.com', 'examplecom', 'example.c0m', '.com',
\* 'www.example.org'.
Domains ==
  {<<>>, <<"e", "x", "a", "m", "p", "l", "e", ".", "c", "o", "m">>, <<"e", "x", "a", "m", "p", "l", "e", "c", "o", "m">>, <<"e", "x", "a", "m", "p", "l", "e", ".", "c", "0", "m">>, <<".", "c", "o", "m">>, <<"w", "w", "w", ".", "e", "x", "a", "m", "p", "l", "e", ".", "o", "r", "g">>}

\* prefix + 'email' on local + '@' + domain (parts holds the two), and on
\* values without an @.
EmailProbes ==
  {[kind |-> "email", className |-> prefix \o <<"e", "m", "a", "i", "l">>,
    value |-> l \o <<"@">> \o d, parts |-> <<l, d>>, min |-> -1, max |-> -1]
   : l \in Locals, d \in Domains}
  \cup
  {[kind |-> "email", className |-> prefix \o <<"e", "m", "a", "i", "l">>,
    value |-> v, parts |-> <<>>, min |-> -1, max |-> -1]
   : v \in {<<>>, <<"u", "s", "e", "r">>, <<"e", "x", "a", "m", "p", "l", "e", ".", "c", "o", "m">>}}

\* The class names of a class string: three rules, one that validationExp
\* does not have, and one without the prefix.
Tokens == {prefix \o <<"r", "e", "q", "u", "i", "r", "e", "d">>, prefix \o <<"n", "u", "m">>, prefix \o <<"a", "l", "p", "h", "a">>, prefix \o <<"b", "o", "g", "u", "s">>, <<"b", "i", "g">>}

\* What stands between two class names: a space, two spaces, a TAB.
Separators == {<<" ">>, <<" ", " ">>, <<"\t">>}

TokenSeqs == UNION {[1..k -> Tokens] : k \in 1..MaxTokens}

\* A class string of up to MaxTokens class names (parts holds them), with or
\* without a space before and after, on '', 'abc' and '12'.
ClassProbes ==
  {[kind |-> "class",
    className |-> x[2] \o Join(x[1], x[3]) \o x[4],
    value |-> x[5], parts |-> x[1], min |-> -1, max |-> -1]
   : x \in TokenSeqs \X Separators \X {<<>>, <<" ">>} \X {<<>>, <<" ">>} \X {<<>>, <<"a", "b", "c">>, <<"1", "2">>}}

\* The prefix alone and the prefix with hyphens only.
EmptyProbes ==
  {[kind |-> "empty", className |-> prefix \o Repeat("-", h),
    value |-> v, parts |-> <<>>, min |-> -1, max |-> -1]
   : h \in 0..2, v \in {<<>>, <<"a", "b", "c">>}}

\* prefix + key for every key of validationExp (parts holds the key).
KeyProbes ==
  {[kind |-> "key", className |-> prefix \o k,
    value |-> v, parts |-> <<k>>, min |-> -1, max |-> -1]
   : k \in DOMAIN validationExp,
     v \in {<<>>, <<"a", "b", "c">>, <<"a", "b", "c", "1">>, <<"1", "2", "3">>, <<"e", "x", "a", "m", "p", "l", "e", ".", "c", "o", "m">>, <<"x", "@", "e", "x", "a", "m", "p", "l", "e", ".", "c", "o", "m">>,
            <<"h", "t", "t", "p", ":", "/", "/", "a", ".", "b">>, <<"5", "5", "5", "-", "5", "5", "5", "-", "5", "5", "5", "5">>}}

\* The file names: 'photo.JPG', 'photo.jpg', 'doc.txt', 'a.html', 'x.tar.gif',
\* 'song.Mp3', 'noext', ''.
FileNames ==
  { <<"p", "h", "o", "t", "o", ".", "J", "P", "G">>, <<"p", "h", "o", "t", "o", ".", "j", "p", "g">>, <<"d", "o", "c", ".", "t", "x", "t">>, <<"a", ".", "h", "t", "m", "l">>, <<"x", ".", "t", "a", "r", ".", "g", "i", "f">>, <<"s", "o", "n", "g", ".", "M", "p", "3">>, <<"n", "o", "e", "x", "t">>, <<>> }

\* prefix + 'file-' + group and prefix + 'upload-' + group for every group of
\* fileTypes, on a file name and on the file name with a double quote after
\* it (parts holds the name, the group and what follows the name).
FileProbes ==
  {[kind |-> "file", className |-> prefix \o x[1] \o <<"-">> \o x[2],
    value |-> x[3] \o x[4], parts |-> <<x[3], x[2], x[4]>>, min |-> -1, max |-> -1]
   : x \in { <<"f", "i", "l", "e">>, <<"u", "p", "l", "o", "a", "d">> } \X (DOMAIN fileTypes) \X FileNames \X {<<>>, <<"\"">>}}

\* The largest index of an error message of a field.
MaxIndex == 11

\* The field names: 'serial', 'x', 'first-name', 'a-b-c', 'serial-0'.
FieldNames == { <<"s", "e", "r", "i", "a", "l">>, <<"x">>, <<"f", "i", "r", "s", "t", "-", "n", "a", "m", "e">>, <<"a", "-", "b", "-", "c">>, <<"s", "e", "r", "i", "a", "l", "-", "0">> }

\* Class names with prefix + multiClass among them.
MarkedClasses ==
  {<<prefix \o errorClass, prefix \o multiClass>>,
   <<prefix \o multiClass>>,
   <<prefix \o multiClass, prefix \o errorClass>>,
   <<prefix \o errorClass, prefix \o multiClass, prefix \o <<"a", "l", "p", "h", "a", "n", "u", "m">>>>}

\* Class names without it, some with its characters in a longer name.
UnmarkedClasses ==
  {<<prefix \o errorClass>>,
   <<prefix \o errorClass, prefix \o multiClass \o <<"a", "x">>>>,
   <<prefix \o errorClass, <<"x">> \o prefix \o multiClass>>,
   <<prefix \o <<"r", "e", "q", "u", "i", "r", "e", "d">>, prefix \o <<"e", "m", "a", "i", "l">>>>}

\* An error id and a class string handed to getFieldName_: field + '-' +
\* index + suffix with a marked class string, and field + suffix with an
\* unmarked one (value holds the id, parts the field name and then the class
\* names, min the index).
IdProbes ==
  {[kind |-> "id", className |-> Join(x[2], x[3]),
    value |-> x[1] \o <<"-">> \o Decimal(x[4]) \o suffix,
    parts |-> <<x[1]>> \o x[2], min |-> x[4], max |-> -1]
   : x \in FieldNames \X MarkedClasses \X Separators \X (0..MaxIndex)}
  \cup
  {[kind |-> "id", className |-> Join(x[2], x[3]),
    value |-> x[1] \o suffix,
    parts |-> <<x[1]>> \o x[2], min |-> -1, max |-> -1]
   : x \in FieldNames \X UnmarkedClasses \X Separators}

Probes ==
  LenProbes \cup EmailProbes \cup ClassProbes \cup EmptyProbes \cup KeyProbes \cup FileProbes
  \cup IdProbes

\* A form for the rules to run in: one text field.
RulesForm == [els |-> <<Control(<<"f">>, "text")>>, nodes |-> <<>>]

\* The most checkboxes of one name.
MaxBoxes == 3

\* The forms of 1 to MaxBoxes checkboxes named 'opt[]', each checked or not
\* and disabled or not.
BoxForms ==
  UNION {[1..k -> {[Control(<<"o", "p", "t", "[", "]">>, "checkbox") EXCEPT !.checked = c, !.disabled = d]
                   : c \in BOOLEAN, d \in BOOLEAN}]
         : k \in 1..MaxBoxes}

\* The field 'opt' handed to check_ (value holds the field name).
BoxProbe ==
  [kind |-> "field", className |-> prefix \o errorClass, value |-> <<"o", "p", "t">>,
   parts |-> <<>>, min |-> -1, max |-> -1]

InitRules ==
  /\ \/ probe \in Probes /\ els = RulesForm.els
     \/ probe = BoxProbe /\ els \in BoxForms
  /\ nodes = RulesForm.nodes
  /\ focus = 0
  /\ location = <<>>
  /\ call = NoCall
  /\ out = NoOut

\* validateHandler_(className, value)
Validate ==
  /\ probe.kind \notin {"field", "id"}
  /\ out.valid = "none"
  /\ \E valid \in {validateHandler_(els, probe.className, probe.value)} :
       out' = [out EXCEPT !.valid = valid]
  /\ UNCHANGED <<els, nodes, focus, location, call, probe>>

\* splitClassName_(className) of a class string that is one class name.
Split ==
  /\ probe.kind \notin {"class", "field", "id"}
  /\ out.split = <<>>
  /\ out' = [out EXCEPT !.split = <<splitClassName_(probe.className)>>]
  /\ UNCHANGED <<els, nodes, focus, location, call, probe>>

\* check_(fieldName, className)
CheckField ==
  /\ probe.kind = "field"
  /\ out.valid = "none"
  /\ \E valid \in {check_(els, probe.value, probe.className)} :
       out' = [out EXCEPT !.valid = valid]
  /\ UNCHANGED <<els, nodes, focus, location, call, probe>>

\* getFieldName_(errorId, className)
Resolve ==
  /\ probe.kind = "id"
  /\ out.field = <<>>
  /\ out' = [out EXCEPT !.field = <<getFieldName_(probe.value, probe.className)>>]
  /\ UNCHANGED <<els, nodes, focus, location, call, probe>>

NextRules == Validate \/ Split \/ CheckField \/ Resolve

SpecRules == InitRules /\ [][NextRules]_vars

-----------------------------------------------------------------------------
(* What a call of isValid leaves, read from the state after it.              *)

\* The error messages the last call of isValid collected, in document order.
Messages == call.errorMsgs

Matched == {Messages[k] : k \in 1..Len(Messages)}

Displayed == {n \in Matched : nodes[n].display = errorDisplay}

\* The field name isValid resolves for the error message nodes[n].
FieldOf(n) == getFieldName_(nodes[n].id, nodes[n].className)

\* The last call invoked check_ for the error message nodes[n]; with the
\* result r.
Evaluated(n) == \E k \in 1..Len(call.log) : call.log[k].node = n

EvaluatedAs(n, r) == \E k \in 1..Len(call.log) : call.log[k].node = n /\ call.log[k].result = r

\* C1: after a call of isValid that returns, a matched error message is
\* displayed (style.display = errorDisplay) iff the call evaluated its field
\* through it and the check failed; every other matched error message is
\* hidden ('none'), also one that was displayed before the call; and the call
\* returns true iff no matched error message is displayed.
C1_DisplayedIffFailed ==
  (call.op = "isValid" /\ call.ret \in {"true", "false"}) =>
    /\ \A n \in Matched :
         IF EvaluatedAs(n, "false")
           THEN nodes[n].display = errorDisplay
           ELSE nodes[n].display = "none"
    /\ (call.ret = "true") <=> (Displayed = {})

\* C1 happens: a call returned false, it left an error message displayed, and
\* it hid one that was displayed when it began.
C1_Witness ==
  /\ call.op = "isValid"
  /\ call.ret = "false"
  /\ Displayed # {}
  /\ \E n \in Matched \cap call.shown : nodes[n].display = "none"

\* C2: isValid is idempotent: a call that directly follows another, with no
\* change of the fields in between, ends as the first did (the same boolean,
\* or the same exception) and leaves the same error messages displayed,
\* whatever was displayed before the first.
C2_Idempotent ==
  [][(call.op = "isValid" /\ call'.op = "isValid") =>
       (call'.ret = call.ret /\ Displayed' = Displayed)]_vars

\* C2 happens: a second call in a row returned false.
C2_Witness ==
  /\ call.op = "isValid"
  /\ call.streak = 2
  /\ call.ret = "false"
  /\ Displayed # {}

\* C3, as the code has it: of two error messages in a row that resolve to the
\* same field, the second is evaluated iff the first was evaluated and the
\* check passed; after a failure, and after a message that was itself
\* skipped, the second is skipped.
C3_SkippedAfterFailure ==
  call.op = "isValid" =>
    \A k \in 1..(Len(Messages) - 1) :
      (FieldOf(Messages[k]) # <<>> /\ FieldOf(Messages[k]) = FieldOf(Messages[k + 1])) =>
        (Evaluated(Messages[k + 1]) <=> EvaluatedAs(Messages[k], "true"))

\* C3 happens: of three error messages in a row for one field, the first
\* passed, the second was evaluated and failed, the third was skipped.
C3_Witness ==
  /\ call.op = "isValid"
  /\ \E k \in 1..(Len(Messages) - 2) :
       /\ FieldOf(Messages[k]) # <<>>
       /\ FieldOf(Messages[k]) = FieldOf(Messages[k + 1])
       /\ FieldOf(Messages[k]) = FieldOf(Messages[k + 2])
       /\ EvaluatedAs(Messages[k], "true")
       /\ EvaluatedAs(Messages[k + 1], "false")
       /\ ~Evaluated(Messages[k + 2])

\* C3, as stated: within one call of isValid a field is evaluated for the
\* first error message of its run only, whether that evaluation passed or
\* failed: check_ is invoked once per field and call.
C3_OneEvaluationPerField ==
  call.op = "isValid" =>
    \A j, k \in 1..Len(call.log) : call.log[j].field = call.log[k].field => j = k

\* C4, as stated: when a check fails (and no check ends in an exception),
\* isValid focuses the control of the field it resolved for the first failing
\* error message, the first control of a group, and returns false: with that
\* control in the form it does not end in an exception.
C4_FocusFirstFailing ==
  (/\ call.op = "isValid"
   /\ \E k \in 1..Len(call.log) : call.log[k].result = "false"
   /\ \A k \in 1..Len(call.log) : call.log[k].result # "TypeError") =>
    LET first == CHOOSE k \in 1..Len(call.log) :
                   /\ call.log[k].result = "false"
                   /\ \A j \in 1..(k - 1) : call.log[j].result # "false"
        field == formGet_(els, call.log[first].field)
    IN  field # <<>> => (call.ret = "false" /\ focus = field[1])

-----------------------------------------------------------------------------
(* What the rules give, read from probe and out.                             *)

\* C5, as stated: prefix + 'len-' + min + '-' + max passes a value iff
\* min <= max as numbers and min <= length <= max, and fails every value when
\* min > max; prefix + 'len-' + min passes a value iff length >= min.
C5_LengthRule ==
  (probe.kind = "len" /\ out.valid # "none") =>
    out.valid = B(IF probe.max = -1
                    THEN Len(probe.value) >= probe.min
                    ELSE /\ probe.min <= probe.max
                         /\ probe.min <= Len(probe.value)
                         /\ Len(probe.value) <= probe.max)

\* The value has an @, what follows its last @ matches the 'domain' pattern,
\* and what stands before it is 1 to LocalMax code units long.
EmailParts(p) ==
  /\ Len(p.parts) = 2
  /\ test(validationExp[<<"d", "o", "m", "a", "i", "n">>], p.parts[2])
  /\ Len(p.parts[1]) \in 1..LocalMax

\* C6, as the code has it: the email rule accepts a value iff it has an @,
\* what follows the last @ matches the domain pattern, and what stands before
\* it is 1 to 255 code units none of which is a line terminator; so a value
\* without @, 'user@' and '@example.com' are rejected and 'a@b@example.com'
\* is accepted.
C6_EmailAccepts ==
  (probe.kind = "email" /\ out.valid # "none") =>
    /\ out.valid = B(/\ EmailParts(probe)
                     /\ \A i \in 1..Len(probe.parts[1]) : probe.parts[1][i] \notin LineTerminators)
    /\ Len(probe.parts) = 0 => out.valid = "false"
    /\ probe.value \in { <<"u", "s", "e", "r", "@">>, <<"@", "e", "x", "a", "m", "p", "l", "e", ".", "c", "o", "m">> } => out.valid = "false"
    /\ probe.value = <<"a", "@", "b", "@", "e", "x", "a", "m", "p", "l", "e", ".", "c", "o", "m">> => out.valid = "true"

\* C6 happens: a local part of permitted length with a line terminator in it,
\* before a domain that matches, and the value is rejected.
C6_Witness ==
  /\ probe.kind = "email"
  /\ EmailParts(probe)
  /\ \E i \in 1..Len(probe.parts[1]) : probe.parts[1][i] \in LineTerminators
  /\ out.valid = "false"

\* C6, as stated: the email rule accepts a value iff it has an @, what
\* follows the last @ matches the domain pattern, and what stands before it
\* has between 1 and 255 characters.
C6_LocalLengthOnly ==
  (probe.kind = "email" /\ out.valid # "none") => out.valid = B(EmailParts(probe))

\* The class name begins with the prefix.
Prefixed(token) == substring(token, 0, Len(prefix)) = prefix

\* C7, as stated: a class string on a value gives true iff every class name
\* of it that begins with the prefix passes its rule on the value, wherever
\* it stands and whatever whitespace separates, leads and trails the names;
\* the names without the prefix change nothing.
C7_EveryPrefixedToken ==
  (probe.kind = "class" /\ out.valid # "none") =>
    ((out.valid = "true") <=>
       \A i \in 1..Len(probe.parts) :
         Prefixed(probe.parts[i]) => RuleOf(els, probe.parts[i], probe.value).valid = "true")

\* C8, as stated: the prefix alone, and the prefix with hyphens only, parses
\* to the method '' without arguments, and is valid for every value, without
\* an exception.
C8_EmptyRuleValid ==
  (probe.kind = "empty" /\ out.valid # "none" /\ out.split # <<>>) =>
    /\ out.split[1] = [method |-> <<>>, args |-> <<>>]
    /\ out.valid = "true"

\* The methods validateHandler_ has a case for.
BuiltIn ==
  { <<"e", "m", "a", "i", "l">>, <<"f", "i", "l", "e">>, <<"u", "p", "l", "o", "a", "d">>, <<"l", "e", "n">>, <<"m", "a", "t", "c", "h">>, <<"e", "q">>, <<"e", "q", "u", "a", "l">>, <<"r", "e", "q", "u", "i", "r", "e", "d">>, <<"e", "r", "r", "o", "r">>,
   errorClass, multiClass}

\* C9, as stated: a class string with a prefixed class name whose method is
\* neither built in nor a key of validationExp never gives true, whatever the
\* value.
C9_UnknownRuleNeverTrue ==
  (/\ probe.kind = "class"
   /\ out.valid # "none"
   /\ \E i \in 1..Len(probe.parts) :
        /\ Prefixed(probe.parts[i])
        /\ splitClassName_(probe.parts[i]).method \notin BuiltIn \cup DOMAIN validationExp) =>
    out.valid # "true"

\* C10, as stated: for every key of validationExp, prefix + key validates a
\* value against the pattern stored under the key, and nothing else.
C10_KeyIsRule ==
  (probe.kind = "key" /\ out.valid # "none") =>
    out.valid = B(test(validationExp[probe.parts[1]], probe.value))

-----------------------------------------------------------------------------
(* The file rule.                                                            *)

\* What follows the last '.' of a file name (the whole name without a '.').
AfterLastDot(name) ==
  LET dots == {i \in 1..Len(name) : name[i] = "."}
  IN  IF dots = {} THEN name
      ELSE SubSeq(name, (CHOOSE i \in dots : \A j \in dots : j <= i) + 1, Len(name))

\* C11, as stated: the file rule of a group passes a value iff the lower-cased
\* text after its last '.' is one of the group's extensions; and a value that
\* ends in a double quote loses the quote only, no character of its
\* extension, and gives what the file name without the quote gives.
C11_FileRule ==
  (probe.kind = "file" /\ out.valid # "none") =>
    out.valid = B(\E i \in 1..Len(fileTypes[probe.parts[2]]) :
                    fileTypes[probe.parts[2]][i] = toLowerCase(AfterLastDot(probe.parts[1])))

-----------------------------------------------------------------------------
(* The checkbox check.                                                       *)

\* C12, as stated: a checkbox field passes iff a control of its name is
\* checked and not disabled, or the field is disabled, a single control as
\* well as a group whose controls are all disabled; a control that is checked
\* but disabled does not count as checked.
C12_CheckboxPasses ==
  (probe.kind = "field" /\ out.valid # "none") =>
    out.valid = B(\/ \E i \in 1..Len(els) : els[i].checked /\ ~els[i].disabled
                  \/ \A i \in 1..Len(els) : els[i].disabled)

-----------------------------------------------------------------------------
(* The field name of an error message.                                       *)

\* The class names of the class string are separated by spaces, as the markup
\* of the validator has them.
SpaceSeparated(className) == \A i \in 1..Len(className) : className[i] # "\t"

-----------------------------------------------------------------------------
(* The elements whose display the validator changes: a form of one text      *)
(* field 'f' with up to MaxNodes elements, of any of a few class strings and *)
(* displayed or not, on which isValid and hideAllErrors are called.          *)

\* The most elements of the form.
MaxNodes == 2

\* The class strings: 'hint', 'error', 'v-num', 'big error', and two with the
\* characters of the error class and of the prefix inside a longer class
\* name, 'terror' and 'nav-item'.
FrameClasses == { <<"h", "i", "n", "t">>, <<"e", "r", "r", "o", "r">>, <<"v", "-", "n", "u", "m">>, <<"b", "i", "g", " ", "e", "r", "r", "o", "r">>, <<"t", "e", "r", "r", "o", "r">>, <<"n", "a", "v", "-", "i", "t", "e", "m">> }

\* An element of one of the class strings, its display not yet set or
\* 'block'; the elements with the error class or a prefixed class name are
\* the messages of the field, with the id 'f-err'.
FrameNodes ==
  {[Node("li", IF c \in { <<"e", "r", "r", "o", "r">>, <<"v", "-", "n", "u", "m">>, <<"b", "i", "g", " ", "e", "r", "r", "o", "r">> } THEN <<"f", "-", "e", "r", "r">> ELSE <<>>, c)
     EXCEPT !.display = d]
   : c \in FrameClasses, d \in {"", "block"}}

InitFrame ==
  /\ \E v \in {<<>>, <<"1", "2">>} : els = <<[Control(<<"f">>, "text") EXCEPT !.value = v]>>
  /\ nodes \in UNION {[1..k -> FrameNodes] : k \in 1..MaxNodes}
  /\ focus = 0
  /\ location = <<>>
  /\ call = NoCall
  /\ probe = NoProbe
  /\ out = NoOut

NextFrame == IsValid \/ HideAllErrors

SpecFrame == InitFrame /\ [][NextFrame]_vars

\* An error element as the markup has it: of the configured tag, if one is
\* set, with a class name that is the error class or begins with the prefix.
ErrorElement(node) ==
  /\ errorTag = "null" \/ node.tag = errorTag
  /\ \E i \in 1..Len(split(node.className, " ")) :
       \/ split(node.className, " ")[i] = errorClass
       \/ Prefixed(split(node.className, " ")[i])

\* C14, as stated: hideAllErrors and isValid change the display of error
\* elements only: the display of every other element stays as it was, also
\* that of an element with the characters of the error class or of the
\* prefix inside a longer class name.
C14_OnlyErrorElements ==
  [][\A n \in 1..Len(nodes) :
       ~ErrorElement(nodes[n]) => nodes'[n].display = nodes[n].display]_vars

====
